---- MODULE Spec2Model ----
(***************************************************************************)
(* The ledger server of src/cli/helpers/server.rs: the startup handshake   *)
(* of Server::start and Server::start_handler, the bounded channel from    *)
(* the transaction_broadcast handlers to the ledger handler task, and the  *)
(* read handlers.                                                          *)
(*                                                                         *)
(* start is called where a Tokio runtime is entered, as the tokio::spawn of *)
(* the warp task requires, and the Server it returns is kept: Server has   *)
(* no operation of its own that ends it.                                   *)
(*                                                                         *)
(* One action is one run of a task between two suspension points (.await). *)
(* The channel is tokio's bounded mpsc channel: a semaphore of             *)
(* ChannelCapacity permits whose waiters are served first-come             *)
(* first-served, and a list of sent values; send acquires a permit and     *)
(* appends the value, recv removes the first value and releases a permit,  *)
(* which goes to the first waiter when there is one.                       *)
(***************************************************************************)
EXTENDS Integers, Sequences, FiniteSets, TLC

\* mpsc::channel(64)
ChannelCapacity == 64

\* The number of transaction/broadcast requests the clients issue.
MaxTx == 66

\* The transactions the clients broadcast, numbered in the order in which
\* their handlers call send.
Txs == 1..MaxTx

NoTx == 0

VARIABLES
    start_pc,       \* Server::start: "begin", "await_handler", "await_warp", "returned", "failed"
    handler_pc,     \* the ledger handler task: "none", "spawned", "ready_sent", "recv", "apply",
                    \* "closed"
    warp_pc,        \* the warp task: "none", "spawned", "ready_sent", "serving", "panicked",
                    \* "stopped"
    handler_ready,  \* the oneshot of start_handler: "none", "empty", "sent", "received"
    warp_ready,     \* the oneshot of start: "none", "empty", "sent", "received"
    permits,        \* the channel's semaphore: the free slots
    queue,          \* the channel's list: the requests sent and not yet received
    waiters,        \* the handlers suspended in send, in the order they started to wait
    holding,        \* the handlers woken with a permit that have not yet pushed their request
    senders,        \* the Senders outside the handlers: "server" (ledger_sender), "route" (its clone)
    next_tx,        \* the next transaction a client broadcasts
    response,       \* what transaction_broadcast answered each transaction broadcast so far
    request,        \* the request the ledger handler received and is applying
    enqueued,       \* history: the transactions in the order their send completed
    applied,        \* history: the transactions in the order add_to_memory_pool was called
    last_outcome,   \* the result of the last add_to_memory_pool call: "none", "Ok", "Err"
    last_reply,     \* what the last request other than an accepted broadcast was answered
    last_request    \* the last request a route took: its route and its body

vars == <<start_pc, handler_pc, warp_pc, handler_ready, warp_ready, permits, queue,
          waiters, holding, senders, next_tx, response, request, enqueued, applied, last_outcome,
          last_reply, last_request>>

startup_vars == <<start_pc, warp_pc, handler_ready, warp_ready>>
channel_vars == <<permits, queue, waiters, holding, senders>>
client_vars == <<next_tx, response, enqueued>>
ledger_vars == <<applied, last_outcome>>

Reply(route, status, body) == [route |-> route, status |-> status, body |-> body]

NoReply == Reply("none", "none", <<>>)

\* A request: the route it matches, the Content-Length of its body, whether the
\* body is JSON of the type the route extracts, and the value it then holds.
Request(route, body) ==
    [route |-> route, len |-> body.len, json |-> body.json, value |-> body.value]

\* The body of a request that has none.
NoBody == [len |-> 0, json |-> FALSE, value |-> <<>>]

NoRequest == Request("none", NoBody)

Init ==
    /\ start_pc = "begin"
    /\ handler_pc = "none"
    /\ warp_pc = "none"
    /\ handler_ready = "none"
    /\ warp_ready = "none"
    /\ permits = ChannelCapacity
    /\ queue = <<>>
    /\ waiters = <<>>
    /\ holding = {}
    /\ senders = {"server", "route"}
    /\ next_tx = 1
    /\ response = <<>>
    /\ request = NoTx
    /\ enqueued = <<>>
    /\ applied = <<>>
    /\ last_outcome = "none"
    /\ last_reply = NoReply
    /\ last_request = NoRequest

----------------------------------------------------------------------------
(* Server::start and Server::start_handler *)

\* The runtime is built, and block_on(start_handler) spawns the ledger handler
\* and waits for rx_handler_ready.
start_spawn_handler ==
    /\ start_pc = "begin"
    /\ start_pc' = "await_handler"
    /\ handler_ready' = "empty"
    /\ handler_pc' = "spawned"
    /\ UNCHANGED <<warp_pc, warp_ready, request>>
    /\ UNCHANGED <<channel_vars, client_vars, ledger_vars, last_reply, last_request>>

\* Builder::build()? fails: start returns the error and no Server; ledger_sender
\* and the routes are dropped.
start_runtime_fail ==
    /\ start_pc = "begin"
    /\ start_pc' = "failed"
    /\ senders' = {}
    /\ UNCHANGED <<handler_pc, warp_pc, handler_ready, warp_ready, request>>
    /\ UNCHANGED <<permits, queue, waiters, holding>>
    /\ UNCHANGED <<client_vars, ledger_vars, last_reply, last_request>>

\* The ledger handler task's first statement: tx_handler_ready.send(()).
handler_signal_ready ==
    /\ handler_pc = "spawned"
    /\ handler_ready = "empty"
    /\ handler_ready' = "sent"
    /\ handler_pc' = "ready_sent"
    /\ UNCHANGED <<start_pc, warp_pc, warp_ready, request>>
    /\ UNCHANGED <<channel_vars, client_vars, ledger_vars, last_reply, last_request>>

\* Mutant of handler_enter_loop: the task signals again when it reaches the
\* loop.
handler_enter_loop_signalling ==
    /\ handler_pc = "ready_sent"
    /\ handler_pc' = "recv"
    /\ handler_ready' = "sent"
    /\ UNCHANGED <<start_pc, warp_pc, warp_ready, request>>
    /\ UNCHANGED <<channel_vars, client_vars, ledger_vars, last_reply, last_request>>

\* The ledger handler task reaches the while-let and polls recv for the first time.
handler_enter_loop ==
    /\ handler_pc = "ready_sent"
    /\ handler_pc' = "recv"
    /\ UNCHANGED <<startup_vars, request>>
    /\ UNCHANGED <<channel_vars, client_vars, ledger_vars, last_reply, last_request>>

\* Mutant of start_spawn_warp: start_handler returns the handle without
\* awaiting rx_handler_ready.
start_spawn_warp_unordered ==
    /\ start_pc = "await_handler"
    /\ handler_ready' = IF handler_ready = "sent" THEN "received" ELSE handler_ready
    /\ warp_ready' = "empty"
    /\ warp_pc' = "spawned"
    /\ start_pc' = "await_warp"
    /\ UNCHANGED <<handler_pc, request>>
    /\ UNCHANGED <<channel_vars, client_vars, ledger_vars, last_reply, last_request>>

\* rx_handler_ready resolves: start_handler returns the handle, and start makes
\* the second oneshot, spawns the warp task and waits for rx_warp_ready.
start_spawn_warp ==
    /\ start_pc = "await_handler"
    /\ handler_ready = "sent"
    /\ handler_ready' = "received"
    /\ warp_ready' = "empty"
    /\ warp_pc' = "spawned"
    /\ start_pc' = "await_warp"
    /\ UNCHANGED <<handler_pc, request>>
    /\ UNCHANGED <<channel_vars, client_vars, ledger_vars, last_reply, last_request>>

\* The warp task composes the routes and sends tx_warp_ready.
warp_signal_ready ==
    /\ warp_pc = "spawned"
    /\ warp_ready = "empty"
    /\ warp_ready' = "sent"
    /\ warp_pc' = "ready_sent"
    /\ UNCHANGED <<start_pc, handler_pc, handler_ready, request>>
    /\ UNCHANGED <<channel_vars, client_vars, ledger_vars, last_reply, last_request>>

\* warp::serve(routes).run(([0, 0, 0, 0], 4180)) binds the socket and serves.
warp_bind ==
    /\ warp_pc = "ready_sent"
    /\ warp_pc' = "serving"
    /\ UNCHANGED <<start_pc, handler_pc, handler_ready, warp_ready, request>>
    /\ UNCHANGED <<channel_vars, client_vars, ledger_vars, last_reply, last_request>>

\* run panics when the address cannot be bound: the warp task ends, and the
\* routes it owns are dropped.
warp_bind_fail ==
    /\ warp_pc = "ready_sent"
    /\ warp_pc' = "panicked"
    /\ senders' = senders \ {"route"}
    /\ UNCHANGED <<start_pc, handler_pc, handler_ready, warp_ready, request>>
    /\ UNCHANGED <<permits, queue, waiters, holding>>
    /\ UNCHANGED <<client_vars, ledger_vars, last_reply, last_request>>

\* Mutant of start_return: the Server is built without ledger_sender, which is
\* dropped when start returns.
start_return_dropping_sender ==
    /\ start_pc = "await_warp"
    /\ warp_ready = "sent"
    /\ warp_ready' = "received"
    /\ start_pc' = "returned"
    /\ senders' = senders \ {"server"}
    /\ UNCHANGED <<handler_pc, warp_pc, handler_ready, request>>
    /\ UNCHANGED <<permits, queue, waiters, holding>>
    /\ UNCHANGED <<client_vars, ledger_vars, last_reply, last_request>>

\* rx_warp_ready resolves: start returns Ok(Server), which holds the runtime,
\* ledger_sender and the handles.
start_return ==
    /\ start_pc = "await_warp"
    /\ warp_ready = "sent"
    /\ warp_ready' = "received"
    /\ start_pc' = "returned"
    /\ UNCHANGED <<handler_pc, warp_pc, handler_ready, request>>
    /\ UNCHANGED <<channel_vars, client_vars, ledger_vars, last_reply, last_request>>

----------------------------------------------------------------------------
(* The channel, Server::transaction_broadcast and the ledger handler's loop *)

\* The ledger handler task owns ledger_receiver and drops it when its loop
\* ends, which is when recv returns None.
receiver_alive == handler_pc \in {"none", "spawned", "ready_sent", "recv", "apply"}

\* Mutant of acquire_now: an unbounded channel, send never waits.
acquire_now_unbounded(p, w) == TRUE

\* send acquires a permit at once when one is free and no handler waits.
acquire_now(p, w) == p > 0 /\ w = <<>>

\* Mutant of body_filters: the body is parsed before its length is looked at.
body_filters_parse_first(limit, body) ==
    IF ~body.json THEN "bad_json"
    ELSE IF body.len > limit THEN "too_large"
    ELSE "pass"

\* .and(warp::body::content_length_limit(limit)).and(warp::body::json()): what
\* the filters in front of a handler answer, "pass" when the handler is reached.
body_filters(limit, body) ==
    IF body.len > limit THEN "too_large"
    ELSE IF ~body.json THEN "bad_json"
    ELSE "pass"

\* content_length_limit(10 * 1024 * 1024) of the transaction/broadcast route.
BroadcastLimit == 10 * 1024 * 1024

\* The bodies posted to transaction/broadcast: of exactly the limit and one
\* byte more, a transaction or not.
BroadcastBodies ==
    [len : {BroadcastLimit, BroadcastLimit + 1}, json : BOOLEAN, value : {<<>>}]

\* The result of send(..).await: Ok(()) once the value is pushed, Err when the
\* receiver is gone.
send_result(alive) == IF alive THEN "Ok" ELSE "Err"

\* match send(..).await { Ok(()) => Ok("OK"), Err(error) => Err(reject::custom(..)) }
broadcast_reply(sent) == IF sent = "Ok" THEN "OK" ELSE "rejected"

\* Mutant of recv: the newest value is returned first.
recv_lifo(q) == [value |-> q[Len(q)], rest |-> SubSeq(q, 1, Len(q) - 1)]

\* Mutant of recv: the value is returned and left in the channel.
recv_peek(q) == [value |-> Head(q), rest |-> q]

\* recv on a channel that holds values: the value it returns, and what it
\* leaves in the channel.
recv(q) == [value |-> Head(q), rest |-> Tail(q)]

\* Mutant of after_apply: an Err ends the loop (the error is propagated).
after_apply_stop_on_error(outcome) == IF outcome = "Err" THEN "stopped" ELSE "recv"

\* Mutant of after_apply: one request is handled and the task ends (if let in
\* the place of while let).
after_apply_once(outcome) == "stopped"

\* Where the loop goes after add_to_memory_pool returned: the error is printed
\* and the next recv follows, whatever the result.
after_apply(outcome) == "recv"

\* Mutant of transaction_broadcast: try_send in the place of send, a full
\* channel is answered with an error.
transaction_broadcast_try_send ==
    /\ warp_pc = "serving"
    /\ next_tx <= MaxTx
    /\ next_tx' = next_tx + 1
    /\ IF receiver_alive /\ acquire_now(permits, waiters)
         THEN /\ permits' = permits - 1
              /\ queue' = Append(queue, next_tx)
              /\ enqueued' = Append(enqueued, next_tx)
              /\ response' = Append(response, broadcast_reply("Ok"))
              /\ UNCHANGED <<waiters, holding>>
         ELSE /\ response' = Append(response, broadcast_reply("Err"))
              /\ UNCHANGED <<permits, queue, waiters, holding, enqueued>>
    /\ \E body \in BroadcastBodies :
          /\ body_filters(BroadcastLimit, body) = "pass"
          /\ last_request' = Request("transaction_broadcast", body)
    /\ UNCHANGED <<startup_vars, handler_pc, request, senders, ledger_vars, last_reply>>

\* A client posts a transaction that passes the route's filters: the handler
\* calls send. With a free permit the request is pushed and the client answered;
\* otherwise the handler suspends.
transaction_broadcast ==
    /\ warp_pc = "serving"
    /\ next_tx <= MaxTx
    /\ next_tx' = next_tx + 1
    /\ IF ~receiver_alive
         THEN /\ response' = Append(response, broadcast_reply(send_result(FALSE)))
              /\ UNCHANGED <<permits, queue, waiters, holding, enqueued>>
         ELSE IF acquire_now(permits, waiters)
           THEN /\ permits' = permits - 1
                /\ queue' = Append(queue, next_tx)
                /\ enqueued' = Append(enqueued, next_tx)
                /\ response' = Append(response, broadcast_reply(send_result(TRUE)))
                /\ UNCHANGED <<waiters, holding>>
           ELSE /\ waiters' = Append(waiters, next_tx)
                /\ response' = Append(response, "suspended")
                /\ UNCHANGED <<permits, queue, holding, enqueued>>
    /\ \E body \in BroadcastBodies :
          /\ body_filters(BroadcastLimit, body) = "pass"
          /\ last_request' = Request("transaction_broadcast", body)
    /\ UNCHANGED <<startup_vars, handler_pc, request, senders, ledger_vars, last_reply>>

\* A handler woken with a permit pushes its request and answers its client.
broadcast_resume(t) ==
    /\ t \in holding
    /\ holding' = holding \ {t}
    /\ queue' = Append(queue, t)
    /\ enqueued' = Append(enqueued, t)
    /\ response' = [response EXCEPT ![t] = broadcast_reply(send_result(receiver_alive))]
    /\ UNCHANGED <<startup_vars, handler_pc, request, permits, waiters, senders, next_tx>>
    /\ UNCHANGED <<ledger_vars, last_reply, last_request>>

\* Mutant of handler_recv: the next request is received while the call of
\* add_to_memory_pool for the previous one has not returned.
handler_recv_overlapping ==
    /\ handler_pc \in {"recv", "apply"}
    /\ queue # <<>>
    /\ request' = recv(queue).value
    /\ queue' = recv(queue).rest
    /\ IF waiters # <<>>
         THEN /\ holding' = holding \cup {Head(waiters)}
              /\ waiters' = Tail(waiters)
              /\ UNCHANGED permits
         ELSE /\ permits' = permits + 1
              /\ UNCHANGED <<waiters, holding>>
    /\ handler_pc' = "apply"
    /\ UNCHANGED <<startup_vars, senders, client_vars, ledger_vars, last_reply, last_request>>

\* ledger_receiver.recv().await yields Some(request): the first value leaves
\* the channel, and its permit goes to the first waiter or back to the semaphore.
handler_recv ==
    /\ handler_pc = "recv"
    /\ queue # <<>>
    /\ request' = recv(queue).value
    /\ queue' = recv(queue).rest
    /\ IF waiters # <<>>
         THEN /\ holding' = holding \cup {Head(waiters)}
              /\ waiters' = Tail(waiters)
              /\ UNCHANGED permits
         ELSE /\ permits' = permits + 1
              /\ UNCHANGED <<waiters, holding>>
    /\ handler_pc' = "apply"
    /\ UNCHANGED <<startup_vars, senders, client_vars, ledger_vars, last_reply, last_request>>

\* Mutant of handler_apply: the error of add_to_memory_pool is sent back to the
\* client of the transaction.
handler_apply_surfacing ==
    /\ handler_pc = "apply"
    /\ \E outcome \in {"Ok", "Err"} :
          /\ applied' = Append(applied, request)
          /\ last_outcome' = outcome
          /\ handler_pc' = after_apply(outcome)
          /\ response' = IF outcome = "Err"
                           THEN [response EXCEPT ![request] = "rejected"]
                           ELSE response
    /\ request' = NoTx
    /\ UNCHANGED <<startup_vars, channel_vars, next_tx, enqueued, last_reply, last_request>>

\* ledger.add_to_memory_pool(transaction) returns Ok or Err; an Err is printed.
handler_apply ==
    /\ handler_pc = "apply"
    /\ \E outcome \in {"Ok", "Err"} :
          /\ applied' = Append(applied, request)
          /\ last_outcome' = outcome
          /\ handler_pc' = after_apply(outcome)
    /\ request' = NoTx
    /\ UNCHANGED <<startup_vars, channel_vars, client_vars, last_reply, last_request>>

\* The Senders of the channel that live: ledger_sender, the clone the
\* transaction/broadcast route holds, and the clone each handler that is
\* suspended in send was called with.
live_senders == Cardinality(senders) + Len(waiters) + Cardinality(holding)

\* Mutant of handler_recv_none: try_recv in the place of recv, the loop ends
\* when the channel holds no value.
handler_recv_none_on_empty ==
    /\ handler_pc = "recv"
    /\ queue = <<>>
    /\ handler_pc' = "closed"
    /\ UNCHANGED <<startup_vars, request, channel_vars, client_vars, ledger_vars>>
    /\ UNCHANGED <<last_reply, last_request>>

\* Mutant of handler_recv_none: the loop ends as soon as the last Sender is
\* dropped, with the values the channel still holds.
handler_recv_none_discarding ==
    /\ handler_pc = "recv"
    /\ live_senders = 0
    /\ handler_pc' = "closed"
    /\ UNCHANGED <<startup_vars, request, channel_vars, client_vars, ledger_vars>>
    /\ UNCHANGED <<last_reply, last_request>>

\* ledger_receiver.recv().await yields None, which it does when every Sender
\* is dropped and the channel holds no value: the while-let ends and the task
\* returns.
handler_recv_none ==
    /\ handler_pc = "recv"
    /\ queue = <<>>
    /\ live_senders = 0
    /\ handler_pc' = "closed"
    /\ UNCHANGED <<startup_vars, request, channel_vars, client_vars, ledger_vars>>
    /\ UNCHANGED <<last_reply, last_request>>

(* The owners of the Senders. Server has no operation that gives up
   ledger_sender while its runtime lives; the two actions below are steps of
   the code that holds the Server and the runtime the warp task was spawned
   on, and they are part of the specifications of the ledger handler alone. *)

\* ledger_sender is dropped by the code that holds it.
server_sender_drop ==
    /\ start_pc = "returned"
    /\ "server" \in senders
    /\ senders' = senders \ {"server"}
    /\ UNCHANGED <<startup_vars, handler_pc, request, permits, queue, waiters, holding>>
    /\ UNCHANGED <<client_vars, ledger_vars, last_reply, last_request>>

\* The runtime the warp task was spawned on shuts down: the warp task, with
\* the routes it owns, and the handlers of the requests in flight are dropped;
\* a dropped handler gives back the permit it held.
warp_stop ==
    /\ warp_pc = "serving"
    /\ warp_pc' = "stopped"
    /\ senders' = senders \ {"route"}
    /\ waiters' = <<>>
    /\ holding' = {}
    /\ permits' = permits + Cardinality(holding)
    /\ UNCHANGED <<start_pc, handler_ready, warp_ready, handler_pc, request, queue>>
    /\ UNCHANGED <<client_vars, ledger_vars, last_reply, last_request>>

----------------------------------------------------------------------------
(* The ledger the read handlers query: a chain of blocks 0..ChainTip and the
   records stored in it, in the order find_records scans them. *)

\* The height of the ledger's latest block.
ChainTip == 1

\* The heights a client asks for: the chain's and one beyond the tip.
Heights == 0..(ChainTip + 1)

\* The commitments a client asks a state path for: the ledger's and one unknown.
MaxCommitment == 5

ViewKeys == {"vk1", "vk2"}
GraphKeys == {"gk1"}
KeyStrings == {"vk1", "gk1", "bad"}

LedgerRecords ==
    << [commitment |-> 3, owner |-> "vk1", spent |-> FALSE],
       [commitment |-> 1, owner |-> "vk1", spent |-> TRUE],
       [commitment |-> 2, owner |-> "vk2", spent |-> FALSE],
       [commitment |-> 4, owner |-> "vk1", spent |-> FALSE] >>

Ok(v) == [ok |-> TRUE, value |-> v]
Err == [ok |-> FALSE, value |-> <<>>]

ledger_latest_height == ChainTip
ledger_latest_hash == ChainTip
ledger_get_block(height) == IF height <= ChainTip THEN Ok(<<height>>) ELSE Err
\* latest_block() reads the block at the latest height from the block store.
ledger_latest_block(readable) == IF readable THEN ledger_get_block(ChainTip) ELSE Err
ledger_to_state_path(commitment) ==
    IF \E i \in 1..Len(LedgerRecords) : LedgerRecords[i].commitment = commitment
      THEN Ok(<<commitment>>) ELSE Err

passes(filter, rec) ==
    CASE filter = "All" -> TRUE
      [] filter = "Spent" -> rec.spent
      [] filter = "Unspent" -> ~rec.spent

RECURSIVE find_records(_, _, _)
\* The (commitment, record) pairs of the view key that pass the filter, from
\* the i-th stored record on, in scan order.
find_records(view_key, filter, i) ==
    IF i > Len(LedgerRecords) THEN <<>>
    ELSE LET rec == LedgerRecords[i]
             rest == find_records(view_key, filter, i + 1)
         IN IF rec.owner = view_key /\ passes(filter, rec)
              THEN <<rec.commitment>> \o rest
              ELSE rest

RECURSIVE collect_sorted(_, _)
\* Mutant of collect: a BTreeMap in the place of the IndexMap, the keys in
\* ascending order.
collect_sorted(pairs, map) ==
    IF pairs = <<>> THEN map
    ELSE LET key == Head(pairs)
         IN collect_sorted(Tail(pairs),
                SelectSeq(map, LAMBDA k : k < key) \o <<key>>
                    \o SelectSeq(map, LAMBDA k : k > key))

RECURSIVE collect(_, _)
\* Iterator::collect::<IndexMap<_, _>>(): the keys in the order of their first
\* insertion.
collect(pairs, map) ==
    IF pairs = <<>> THEN map
    ELSE collect(Tail(pairs),
                 IF \E i \in 1..Len(map) : map[i] = Head(pairs)
                   THEN map ELSE Append(map, Head(pairs)))

parse_view_key(str) == IF str \in ViewKeys THEN Ok(<<>>) ELSE Err
parse_graph_key(str) == IF str \in GraphKeys THEN Ok(<<>>) ELSE Err

----------------------------------------------------------------------------
(* The routes and their handlers *)

\* The body of a request: its Content-Length, whether it is JSON of the type
\* the route extracts, and the value it then holds.
BodyLens == {100, 128, 129, 256, 257}

\* The JSON objects of strings a records/spent or records/unspent body holds:
\* each of view_key and graph_key present or absent.
KeyMaps ==
    UNION {[keys -> KeyStrings] : keys \in SUBSET {"view_key", "graph_key"}}

\* The bodies of a route that extracts one of the values: JSON of that type,
\* or not, and then the route extracts nothing.
Bodies(values) ==
    [len : BodyLens, json : {TRUE}, value : values]
        \cup [len : BodyLens, json : {FALSE}, value : {<<>>}]

StatePathBodies == Bodies(1..MaxCommitment)
RecordsAllBodies == Bodies(ViewKeys)
RecordsBodies == Bodies(KeyMaps)


\* Mutant of or_reject: the result is unwrapped, an Err panics in the handler.
or_reject_unwrap(route, result) ==
    IF result.ok THEN Reply(route, "ok", result.value)
    ELSE Reply(route, "panic", <<>>)

\* or_reject: the value when the result is Ok, a ServerError::Request rejection
\* otherwise.
or_reject(route, result) ==
    IF result.ok THEN Reply(route, "ok", result.value)
    ELSE Reply(route, "rejected", <<>>)

latest_height == Reply("latest_height", "ok", <<ledger_latest_height>>)

latest_hash == Reply("latest_hash", "ok", <<ledger_latest_hash>>)

latest_block(readable) == or_reject("latest_block", ledger_latest_block(readable))

get_block(height) == or_reject("get_block", ledger_get_block(height))

state_path(commitment) == or_reject("state_path", ledger_to_state_path(commitment))

records_all(view_key) ==
    Reply("records_all", "ok", collect(find_records(view_key, "All", 1), <<>>))

\* body["view_key"] and body["graph_key"] index the map and panic when the key
\* is absent; parse().or_reject()? rejects a key that does not parse.
records_by_keys(route, filter, map) ==
    IF "view_key" \notin DOMAIN map THEN Reply(route, "panic", <<>>)
    ELSE IF ~parse_view_key(map["view_key"]).ok THEN Reply(route, "rejected", <<>>)
    ELSE IF "graph_key" \notin DOMAIN map THEN Reply(route, "panic", <<>>)
    ELSE IF ~parse_graph_key(map["graph_key"]).ok THEN Reply(route, "rejected", <<>>)
    ELSE Reply(route, "ok", collect(find_records(map["view_key"], filter, 1), <<>>))

records_spent(map) == records_by_keys("records_spent", "Spent", map)

records_unspent(map) == records_by_keys("records_unspent", "Unspent", map)

\* A route with a body: the filters' rejection, or the handler's reply.
with_body(route, limit, body, reply) ==
    IF body_filters(limit, body) = "pass" THEN reply
    ELSE Reply(route, body_filters(limit, body), <<>>)

\* Mutant of serve: the request is answered once a permit of the channel is
\* free and no handler waits for one.
serve_behind_queue(req, reply) ==
    /\ warp_pc = "serving"
    /\ acquire_now(permits, waiters)
    /\ last_request' = req
    /\ last_reply' = reply
    /\ UNCHANGED <<startup_vars, handler_pc, request>>
    /\ UNCHANGED <<channel_vars, client_vars, ledger_vars>>

\* The listening server answers a request; nothing but the reply changes.
serve(req, reply) ==
    /\ warp_pc = "serving"
    /\ last_request' = req
    /\ last_reply' = reply
    /\ UNCHANGED <<startup_vars, handler_pc, request>>
    /\ UNCHANGED <<channel_vars, client_vars, ledger_vars>>

route_latest_height == serve(Request("latest_height", NoBody), latest_height)

route_latest_hash == serve(Request("latest_hash", NoBody), latest_hash)

route_latest_block ==
    \E readable \in BOOLEAN :
        serve(Request("latest_block", NoBody), latest_block(readable))

\* The height is a segment of the path.
route_get_block ==
    \E height \in Heights :
        serve(Request("get_block", [NoBody EXCEPT !.value = height]), get_block(height))

route_state_path ==
    \E body \in StatePathBodies :
        serve(Request("state_path", body),
              with_body("state_path", 128, body, state_path(body.value)))

route_records_all ==
    \E body \in RecordsAllBodies :
        serve(Request("records_all", body),
              with_body("records_all", 256, body, records_all(body.value)))

route_records_spent ==
    \E body \in RecordsBodies :
        serve(Request("records_spent", body),
              with_body("records_spent", 256, body, records_spent(body.value)))

route_records_unspent ==
    \E body \in RecordsBodies :
        serve(Request("records_unspent", body),
              with_body("records_unspent", 128, body, records_unspent(body.value)))

\* A body posted to transaction/broadcast that the route's filters reject: the
\* handler is not called.
transaction_broadcast_rejected ==
    \E body \in BroadcastBodies :
        /\ body_filters(BroadcastLimit, body) # "pass"
        /\ serve(Request("transaction_broadcast", body),
                 Reply("transaction_broadcast", body_filters(BroadcastLimit, body), <<>>))

\* A request sent once start has returned while no socket listens on the port.
connection_refused ==
    /\ start_pc = "returned"
    /\ warp_pc # "serving"
    /\ last_request' = Request("latest_height", NoBody)
    /\ last_reply' = Reply("none", "refused", <<>>)
    /\ UNCHANGED <<startup_vars, handler_pc, request>>
    /\ UNCHANGED <<channel_vars, client_vars, ledger_vars>>

----------------------------------------------------------------------------

Startup ==
    \/ start_spawn_handler
    \/ start_runtime_fail
    \/ handler_signal_ready
    \/ handler_enter_loop
    \/ start_spawn_warp
    \/ warp_signal_ready
    \/ warp_bind
    \/ warp_bind_fail
    \/ start_return

Pipeline ==
    \/ transaction_broadcast
    \/ \E t \in Txs : broadcast_resume(t)
    \/ handler_recv
    \/ handler_apply

\* The eight routes that read the ledger.
ReadRoutes ==
    \/ route_latest_height
    \/ route_latest_hash
    \/ route_latest_block
    \/ route_get_block
    \/ route_state_path
    \/ route_records_all
    \/ route_records_spent
    \/ route_records_unspent

Reads ==
    \/ ReadRoutes
    \/ transaction_broadcast_rejected
    \/ connection_refused

\* The broadcasts issued while the reads are explored.
MaxTxReads == 2

Next == Startup \/ Pipeline

NextReads ==
    \/ Startup
    \/ Reads
    \/ next_tx <= MaxTxReads /\ transaction_broadcast
    \/ handler_recv
    \/ handler_apply

\* The startup, the broadcasts and the ledger handler.
Spec == Init /\ [][Next]_vars

\* The startup, the read routes and a few broadcasts.
SpecReads == Init /\ [][NextReads]_vars

\* The scheduler runs every spawned task that can make a step: the ledger
\* handler task and the broadcast handlers woken with a permit; and every call
\* of add_to_memory_pool returns.
Fairness ==
    /\ WF_vars(handler_signal_ready)
    /\ WF_vars(handler_enter_loop)
    /\ WF_vars(handler_recv)
    /\ WF_vars(handler_apply)
    /\ WF_vars(\E t \in Txs : broadcast_resume(t))

\* The startup, the broadcasts and the ledger handler under a fair scheduler.
SpecFair == Init /\ [][Next]_vars /\ Fairness

NextBackpressure ==
    \/ Startup
    \/ last_reply = NoReply /\ Pipeline
    \/ last_reply = NoReply /\ waiters # <<>> /\ ReadRoutes

\* The startup, the broadcasts and the ledger handler up to the first read,
\* which arrives while broadcast handlers are suspended on the full channel.
SpecBackpressure == Init /\ [][NextBackpressure]_vars

NextHandler ==
    \/ Startup
    \/ Pipeline
    \/ server_sender_drop
    \/ warp_stop
    \/ handler_recv_none

\* The ledger handler and its channel, with owners of the Senders that drop
\* them at any moment.
SpecHandler == Init /\ [][NextHandler]_vars

\* The same under a fair scheduler, which also runs the ledger handler task
\* when recv has None to return.
SpecHandlerFair == Init /\ [][NextHandler]_vars /\ Fairness /\ WF_vars(handler_recv_none)

----------------------------------------------------------------------------
(* The claims *)

Range(s) == {s[i] : i \in 1..Len(s)}

\* C1: the ledger handler calls add_to_memory_pool on the requests in exactly
\* the order in which their sends completed: at every moment the requests
\* applied so far are the first ones of the requests enqueued so far, in the
\* same order.
C1_AppliedInEnqueueOrder ==
    /\ Len(applied) <= Len(enqueued)
    /\ \A i \in 1..Len(applied) : applied[i] = enqueued[i]

\* C1 witness: two handlers sent concurrently, the one that called send later
\* completed first, and both requests have been applied.
C1_Witness ==
    \E i, j \in 1..Len(applied) : i < j /\ enqueued[i] > enqueued[j]

\* C2: at most one call of add_to_memory_pool is in progress and only the
\* ledger handler task makes it: every step that calls it is the ledger
\* handler's step on the one request it holds, and the ledger handler receives
\* a next request only when it holds none.
C2_SingleMutator ==
    /\ []((handler_pc = "apply") <=> (request # NoTx))
    /\ [][ /\ applied' # applied =>
                /\ handler_pc = "apply"
                /\ request # NoTx
                /\ applied' = Append(applied, request)
          /\ (request' # NoTx /\ request' # request) =>
                /\ request = NoTx
                /\ handler_pc = "recv" ]_vars

\* C2 witness: a call of add_to_memory_pool is in progress while two broadcast
\* handlers are in the middle of send.
C2_Witness ==
    /\ handler_pc = "apply"
    /\ request # NoTx
    /\ Cardinality(holding) + Len(waiters) >= 2

\* C8: every request is delivered to the ledger handler at most once and as it
\* was sent: no transaction is applied twice, and every transaction applied or
\* being applied is one whose send completed, no longer in the channel.
C8_AtMostOnce ==
    /\ \A i, j \in 1..Len(applied) : i # j => applied[i] # applied[j]
    /\ Range(applied) \subseteq Range(enqueued)
    /\ request # NoTx =>
          /\ request \in Range(enqueued)
          /\ request \notin Range(applied)
          /\ request \notin Range(queue)
    /\ Range(queue) \cap Range(applied) = {}
    /\ \A i, j \in 1..Len(queue) : i # j => queue[i] # queue[j]

\* C8 witness: every transaction the clients broadcast has been applied.
C8_Witness ==
    /\ Len(applied) = MaxTx
    /\ Range(applied) = Txs

\* C3: when start returns the Server, the ledger handler task runs and has
\* signalled, and the warp task has bound its socket and serves.
C3_StartReturnsLive ==
    start_pc = "returned" =>
        /\ handler_pc \in {"ready_sent", "recv", "apply"}
        /\ warp_pc = "serving"

\* C4: whatever add_to_memory_pool returns, the ledger handler goes back to
\* recv and leaves the channel as it is, so after an Err it is still in its
\* loop, and a request waiting in the channel after a failed one is received
\* and applied.
C4_FailureDoesNotStopHandler ==
    /\ [](last_outcome = "Err" => handler_pc \in {"recv", "apply"})
    /\ [][(handler_pc = "apply" /\ handler_pc' # "apply") =>
              /\ handler_pc' = "recv"
              /\ UNCHANGED <<channel_vars, client_vars>>]_vars
    /\ (last_outcome = "Err" /\ handler_pc = "recv" /\ queue # <<>>) ~>
              (handler_pc = "apply")

\* C4 witness: add_to_memory_pool has failed for one request, and the next
\* request of the channel has been received and is being applied.
C4_Witness ==
    /\ last_outcome = "Err"
    /\ handler_pc = "apply"
    /\ Len(applied) >= 1
    /\ request = enqueued[Len(applied) + 1]

\* C5: a handler that calls send while the channel holds ChannelCapacity
\* requests is neither answered an error nor loses its request: it stays
\* suspended, among the waiters or holding a freed slot, until its request is
\* pushed and its client answered OK; and under a fair scheduler no handler
\* stays suspended for ever.
C5_FullQueueSuspends ==
    /\ [](\A t \in DOMAIN response :
              /\ response[t] # "rejected"
              /\ response[t] = "suspended" =>
                    /\ t \notin Range(enqueued)
                    /\ (t \in Range(waiters)) # (t \in holding)
              /\ response[t] = "OK" => t \in Range(enqueued))
    /\ [][/\ \A t \in DOMAIN response :
                 response[t] = "suspended" => response'[t] \in {"suspended", "OK"}
          /\ \A t \in DOMAIN response' \ DOMAIN response :
                 response'[t] = "suspended" <=>
                     Len(queue) + Cardinality(holding) = ChannelCapacity]_vars
    /\ []<>(\A t \in DOMAIN response : response[t] # "suspended")

\* C5 witness: a handler that was suspended behind another one on a full
\* channel has pushed its request and answered OK, while the handler before
\* it still holds the slot the ledger handler freed for it.
C5_Witness ==
    \E t, u \in DOMAIN response :
        /\ u < t
        /\ u \in holding
        /\ response[u] = "suspended"
        /\ response[t] = "OK"
        /\ t \in Range(queue)

\* C6: under a fair scheduler every request whose send completed is applied.
\* The order of the completed sends and the order of the applied requests only
\* grow, and again and again the ledger handler has applied every request
\* whose send completed: a request enqueued at some moment is among them the
\* next time this is so.
C6_EnqueuedEventuallyApplied ==
    /\ [][enqueued' = enqueued \/ \E t \in Txs : enqueued' = Append(enqueued, t)]_vars
    /\ [][applied' = applied \/ \E t \in Txs : applied' = Append(applied, t)]_vars
    /\ []<>(applied = enqueued)

\* C6 witness: a request that was answered OK with ten requests before it in
\* the channel's order has been applied.
C6_Witness ==
    \E n \in 11..Len(applied) :
        /\ response[applied[n]] = "OK"
        /\ applied[n] = enqueued[n]

\* C7: the reply to a broadcast depends only on the send: a client is answered
\* OK in the very step in which its request is pushed, when the request has not
\* been applied; a reply once given never changes; and a step in which
\* add_to_memory_pool returns, Ok or Err, changes no reply to any client.
C7_ReplyIsEnqueueOutcome ==
    [][ /\ \A t \in DOMAIN response :
              response[t] \in {"OK", "rejected"} => response'[t] = response[t]
        /\ \A t \in DOMAIN response' :
              (response'[t] = "OK" /\ (t \in DOMAIN response => response[t] # "OK")) =>
                    /\ enqueued' = Append(enqueued, t)
                    /\ t \notin Range(applied')
                    /\ request' # t
        /\ applied' # applied => (response' = response /\ last_reply' = last_reply) ]_vars

\* C7 witness: add_to_memory_pool failed for a transaction whose client had
\* been answered OK, and the answer stands.
C7_Witness ==
    /\ last_outcome = "Err"
    /\ applied # <<>>
    /\ response[applied[Len(applied)]] = "OK"

\* C9: a records/spent or records/unspent request within the size limit whose
\* body is malformed (no JSON object of strings, a key that does not parse, a
\* key that is absent) is answered with a request failure: the handler never
\* panics.
C9_MalformedKeysRejected ==
    last_reply.route \in {"records_spent", "records_unspent"} =>
        last_reply.status \in {"ok", "rejected", "bad_json", "too_large"}

\* C10: a read whose ledger lookup fails is answered with a rejection and
\* nothing else happens: the channel, the ledger and both tasks are as before,
\* and the server goes on answering requests.
C10_FailedLookupRejected ==
    /\ [][\A route \in {"latest_block", "get_block", "state_path"} :
            (last_reply' # last_reply /\ last_reply'.route = route
                /\ last_reply'.status \notin {"ok", "bad_json", "too_large"}) =>
                /\ last_reply'.status = "rejected"
                /\ warp_pc' = "serving"
                /\ UNCHANGED <<startup_vars, handler_pc, request>>
                /\ UNCHANGED <<channel_vars, client_vars, ledger_vars>>]_vars
    /\ [](last_reply.status = "rejected" =>
            /\ ENABLED route_latest_height
            /\ ENABLED route_get_block
            /\ handler_pc \in {"ready_sent", "recv", "apply"})

\* C10 witness: block ChainTip + 1 was asked for and the request rejected,
\* while a broadcast request waits in the channel and the ledger handler is in
\* its loop.
C10_Witness ==
    /\ last_reply = get_block(ChainTip + 1)
    /\ last_reply.status = "rejected"
    /\ warp_pc = "serving"
    /\ queue # <<>>
    /\ handler_pc = "recv"

\* The routes that take a body, and the limit the claim gives each of them.
C11_BodyRoutes ==
    {"state_path", "records_all", "records_spent", "records_unspent", "transaction_broadcast"}

C11_Limit(route) ==
    CASE route = "state_path" -> 128
      [] route = "records_all" -> 256
      [] route = "records_spent" -> 256
      [] route = "records_unspent" -> 128
      [] route = "transaction_broadcast" -> 10485760

C11_Oversize(req) == req.route \in C11_BodyRoutes /\ req.len > C11_Limit(req.route)

\* C11: on each of the five routes that take a body, a request whose body is
\* larger than the route's limit is answered with the size rejection whether or
\* not the body is JSON, the reply holds nothing read from the ledger, and the
\* step changes neither the channel, nor what was enqueued, nor the ledger
\* handler; a body that is not larger than the limit is never answered with the
\* size rejection: a read route answers it otherwise, and the broadcast route
\* hands a transaction of exactly the limit to its handler.
C11_OversizeRejectedBeforeParsing ==
    /\ [](C11_Oversize(last_request) =>
            last_reply = Reply(last_request.route, "too_large", <<>>))
    /\ []((last_request.route \in C11_BodyRoutes /\ ~C11_Oversize(last_request)) =>
            IF last_request.route = "transaction_broadcast" /\ last_request.json
              THEN Len(response) > 0
              ELSE /\ last_reply.route = last_request.route
                   /\ last_reply.status # "too_large")
    /\ [][(last_request' # last_request /\ C11_Oversize(last_request')) =>
            UNCHANGED <<channel_vars, client_vars, ledger_vars, handler_pc, request>>]_vars

\* C11 witness: a broadcast of one byte more than 10 MiB that is not JSON was
\* answered with the size rejection while an earlier transaction waits in the
\* channel.
C11_Witness ==
    /\ last_request.route = "transaction_broadcast"
    /\ last_request.len = BroadcastLimit + 1
    /\ ~last_request.json
    /\ last_reply.status = "too_large"
    /\ queue # <<>>

\* C12: records/all, records/spent and records/unspent answer a query with the
\* commitments of the records in exactly the order in which find_records
\* yields them for the query's view key and filter; the reply is a function of
\* the query, so the same query is answered with the same entries in the same
\* order every time.
C12_RecordsInScanOrder ==
    (last_reply.route = last_request.route /\ last_reply.status = "ok") =>
        /\ last_request.route = "records_all" =>
              last_reply.body = find_records(last_request.value, "All", 1)
        /\ last_request.route = "records_spent" =>
              last_reply.body = find_records(last_request.value["view_key"], "Spent", 1)
        /\ last_request.route = "records_unspent" =>
              last_reply.body = find_records(last_request.value["view_key"], "Unspent", 1)

\* C12 witness: records/all answered a view key whose records are not stored
\* in the order of their commitments, and the reply keeps the stored order.
C12_Witness ==
    /\ last_request.route = "records_all"
    /\ last_reply.route = "records_all"
    /\ last_reply.status = "ok"
    /\ Len(last_reply.body) = 3
    /\ last_reply.body[1] > last_reply.body[2]
    /\ last_reply.body[2] < last_reply.body[3]

\* A request has been handled by a route: answered, or taken by the broadcast
\* handler.
C13_RequestHandled == last_reply.status \notin {"none", "refused"} \/ next_tx > 1

\* C13: start goes through its steps in one order: it spawns the ledger
\* handler and waits; it leaves that wait by receiving the handler's readiness
\* signal, and only in that step spawns the warp task; it leaves the second
\* wait by receiving the warp task's signal, and only in that step returns.
\* So the warp task exists, and a request is handled, only when the ledger
\* handler's readiness has been received.
C13_StartupOrder ==
    /\ [][start_pc' # start_pc =>
            \/ /\ start_pc = "begin"
               /\ start_pc' \in {"await_handler", "failed"}
               /\ start_pc' = "await_handler" <=> handler_pc' = "spawned"
               /\ warp_pc' = "none"
            \/ /\ start_pc = "await_handler"
               /\ start_pc' = "await_warp"
               /\ handler_ready = "sent" /\ handler_ready' = "received"
               /\ warp_pc = "none" /\ warp_pc' = "spawned"
            \/ /\ start_pc = "await_warp"
               /\ start_pc' = "returned"
               /\ warp_ready = "sent" /\ warp_ready' = "received"]_vars
    /\ [][warp_pc = "none" /\ warp_pc' # "none" => start_pc = "await_handler"]_vars
    /\ [](warp_pc # "none" => handler_ready = "received")
    /\ [](C13_RequestHandled => handler_ready = "received")
    /\ [](start_pc = "returned" => handler_ready = "received" /\ warp_ready = "received")

\* C13 witness: start has returned after both signals were received, and a
\* read and a broadcast have been handled.
C13_Witness ==
    /\ start_pc = "returned"
    /\ handler_ready = "received"
    /\ warp_ready = "received"
    /\ last_reply.status = "ok"
    /\ next_tx > 1

\* C14: each oneshot goes once through created, fired, consumed. The one of
\* start_handler is fired by the ledger handler task, in the step in which the
\* task leaves its start, while start waits for it, and is consumed by start in
\* the step that spawns the warp task; the one of start is fired by the warp
\* task, in the step that follows the composition of the routes, while start
\* waits for it, and is consumed by start in the step that returns. Neither
\* task passes its first statement without firing, nothing else changes a
\* signal, and when start has returned both have been fired and consumed.
C14_SignalsOnce ==
    /\ [][handler_ready' # handler_ready =>
            \/ /\ handler_ready = "none" /\ handler_ready' = "empty"
               /\ start_pc = "begin" /\ start_pc' = "await_handler"
            \/ /\ handler_ready = "empty" /\ handler_ready' = "sent"
               /\ handler_pc = "spawned" /\ handler_pc' = "ready_sent"
               /\ start_pc = "await_handler" /\ start_pc' = start_pc
            \/ /\ handler_ready = "sent" /\ handler_ready' = "received"
               /\ start_pc = "await_handler" /\ start_pc' = "await_warp"
               /\ handler_pc' = handler_pc]_vars
    /\ [][warp_ready' # warp_ready =>
            \/ /\ warp_ready = "none" /\ warp_ready' = "empty"
               /\ start_pc = "await_handler" /\ start_pc' = "await_warp"
            \/ /\ warp_ready = "empty" /\ warp_ready' = "sent"
               /\ warp_pc = "spawned" /\ warp_pc' = "ready_sent"
               /\ start_pc = "await_warp" /\ start_pc' = start_pc
            \/ /\ warp_ready = "sent" /\ warp_ready' = "received"
               /\ start_pc = "await_warp" /\ start_pc' = "returned"
               /\ warp_pc' = warp_pc]_vars
    /\ [][(handler_pc = "spawned" /\ handler_pc' # "spawned") => handler_ready' = "sent"]_vars
    /\ [][(warp_pc = "spawned" /\ warp_pc' # "spawned") => warp_ready' = "sent"]_vars
    /\ [](handler_pc \in {"ready_sent", "recv", "apply"} => handler_ready \in {"sent", "received"})
    /\ [](warp_pc \in {"ready_sent", "serving", "panicked"} => warp_ready \in {"sent", "received"})
    /\ [](start_pc = "returned" => handler_ready = "received" /\ warp_ready = "received")

\* C14 witness: both signals have been fired and consumed, and the ledger
\* handler has gone round its loop since.
C14_Witness ==
    /\ handler_ready = "received"
    /\ warp_ready = "received"
    /\ handler_pc = "recv"
    /\ Len(applied) >= 2

\* C15: whenever the ledger handler's readiness signal has been fired, the
\* task is in its loop: it awaits recv or applies a request.
C15_ReadyOnlyInLoop ==
    handler_ready \in {"sent", "received"} => handler_pc \in {"recv", "apply"}

\* C16: the ledger handler leaves its loop in one way only: from recv, to
\* Closed, in a state in which no Sender lives. While a Sender lives the loop
\* exit is not enabled, whatever the channel holds and whatever the last
\* add_to_memory_pool returned, and a closed handler has no Sender left.
C16_ClosedOnlyWhenSendersDropped ==
    /\ [][(handler_pc \in {"recv", "apply"} /\ handler_pc' \notin {"recv", "apply"}) =>
            /\ handler_pc = "recv"
            /\ handler_pc' = "closed"
            /\ live_senders = 0]_vars
    /\ [](live_senders > 0 => ~ENABLED handler_recv_none)
    /\ [](handler_pc = "closed" => live_senders = 0)
    /\ []((last_outcome = "Err" /\ live_senders > 0) => handler_pc \in {"recv", "apply"})

\* C16 witness: the handler is closed after the last Sender was dropped; before
\* that a broadcast handler was suspended on the full channel, and the last
\* add_to_memory_pool failed.
C16_Witness ==
    /\ handler_pc = "closed"
    /\ senders = {}
    /\ last_outcome = "Err"
    /\ \E t \in DOMAIN response : response[t] = "suspended"
    /\ Len(applied) >= ChannelCapacity

\* C17: a step in which a read route answers changes the reply and nothing
\* else: not the channel, not the Senders, not what was enqueued or applied,
\* not the ledger handler; and every read route can answer in every state in
\* which the server listens, also while the channel is full and broadcast
\* handlers are suspended in send.
C17_ReadsBypassQueue ==
    /\ [][(last_reply' # last_reply \/ last_request' # last_request) =>
            \/ last_request'.route = "transaction_broadcast"
            \/ UNCHANGED <<startup_vars, channel_vars, client_vars, ledger_vars, handler_pc,
                           request>>]_vars
    /\ [](warp_pc = "serving" =>
            /\ ENABLED route_latest_height
            /\ ENABLED route_latest_hash
            /\ ENABLED route_latest_block
            /\ ENABLED route_get_block
            /\ ENABLED route_state_path
            /\ ENABLED route_records_all
            /\ ENABLED route_records_spent
            /\ ENABLED route_records_unspent)

\* C17 witness: records/unspent has answered with records while the channel
\* holds 64 requests and two broadcast handlers are suspended in send.
C17_Witness ==
    /\ last_reply.route = "records_unspent"
    /\ last_reply.status = "ok"
    /\ last_reply.body # <<>>
    /\ Len(queue) = ChannelCapacity
    /\ permits = 0
    /\ Len(waiters) >= 2

\* C18: the requests whose send completed and which the ledger handler has not
\* yet received are the ones the channel holds, and they are never more than
\* 64: the free permits, the permits handed to woken handlers and the requests
\* in the channel always add up to the capacity.
C18_QueueBounded ==
    /\ Len(queue) <= ChannelCapacity
    /\ Len(enqueued) - Len(applied) - (IF request # NoTx THEN 1 ELSE 0) = Len(queue)
    /\ permits >= 0
    /\ permits + Cardinality(holding) + Len(queue) = ChannelCapacity

\* C18 witness: 66 broadcast handlers have called send and none of their
\* requests has been received: 64 are in the channel and two handlers wait.
C18_Witness ==
    /\ next_tx = MaxTx + 1
    /\ applied = <<>>
    /\ request = NoTx
    /\ Len(queue) = ChannelCapacity
    /\ Len(queue) + Len(waiters) = MaxTx

\* C19: from the creation of the channel on, and in the Server that start
\* returns, ledger_sender lives, and the transaction/broadcast route holds its
\* clone as long as the warp task has not ended. So with a Server a Sender
\* always lives: the ledger handler is never closed and its loop exit is never
\* enabled. A broadcast is answered with a failure only when the receiver is
\* gone; on a full channel the handler is suspended instead.
C19_SenderRetained ==
    /\ [](start_pc # "failed" => "server" \in senders)
    /\ []((start_pc # "failed" /\ warp_pc # "panicked") => "route" \in senders)
    /\ [](start_pc = "returned" =>
            /\ live_senders > 0
            /\ handler_pc # "closed"
            /\ ~ENABLED handler_recv_none)
    /\ [](\A t \in DOMAIN response : response[t] = "rejected" => ~receiver_alive)
    /\ [][(next_tx' = next_tx + 1 /\ permits = 0 /\ receiver_alive) =>
            response'[next_tx] = "suspended"]_vars

\* C19 witness: start has returned although the warp task ended when it could
\* not bind its port; the clone of the route is gone, ledger_sender is the only
\* Sender, and the ledger handler waits in recv on the empty channel.
C19_Witness ==
    /\ start_pc = "returned"
    /\ warp_pc = "panicked"
    /\ senders = {"server"}
    /\ handler_pc = "recv"
    /\ queue = <<>>
    /\ live_senders = 1

====
